---- MODULE Spec2Model ----
(***************************************************************************)
(* pydantic-ai-todo: an in-memory todo list (TodoStorage), the two tools   *)
(* read_todos / write_todos bound to a storage by create_todo_toolset, and *)
(* the prompt renderer get_todo_system_prompt.                             *)
(*                                                                         *)
(* A storage object is a record [_todos |-> <<...>>]; a Todo / TodoItem is *)
(* a record [content, status, active_form].  Text is modelled as TLA+      *)
(* strings built with \o exactly as the f-strings build it; the list       *)
(* `lines` a renderer joins is kept next to the joined result.             *)
(***************************************************************************)
EXTENDS Naturals, Sequences, FiniteSets, TLC

\* ------------------------------------------------------------------ bounds
\* Longest list a caller passes to write_todos or assigns to storage.todos.
MaxLen == 2

\* ------------------------------------------------------------ value domains
None == 0
\* The two toolsets of the scenarios (two toolsets on one storage, or two
\* toolsets each on its default storage).
ToolsetIds == {1, 2}
\* Addresses of storage objects.
StorageIds == {1, 2}

\* (content, active_form) texts the callers use.
Texts == { <<"Task 1", "Doing task 1">>, <<"Task 2", "Doing task 2">> }

\* Well-formed items: every text with every status of the Literal.
ValidItems ==
    { [content |-> tx[1], status |-> s, active_form |-> tx[2]] :
        tx \in Texts, s \in {"pending", "in_progress", "completed"} }
\* An item whose status string is outside the Literal.
Blocked ==
    [content |-> "Task 1", status |-> "blocked", active_form |-> "Doing task 1"]
\* A tool-call item that lacks the required field active_form.
Truncated == [content |-> "Task 2", status |-> "pending"]

\* Objects shaped like a Todo, whatever their status string.
TodoShaped == ValidItems \cup {Blocked}
\* What a host may send as one element of the write_todos argument.
RawItems == TodoShaped \cup {Truncated}

SeqUpTo(S, n) == UNION { [1..k -> S] : k \in 0..n }

\* ------------------------------------------------------------------ types.py
\* Literal["pending", "in_progress", "completed"]
Status == {"pending", "in_progress", "completed"}

\* pydantic validation of the fields of Todo: all three required, status in
\* the Literal.
TodoValid(t) ==
    /\ {"content", "status", "active_form"} \subseteq DOMAIN t
    /\ t.status \in Status

\* pydantic validation of the fields of TodoItem (same fields as Todo).
TodoItemValid(t) ==
    /\ {"content", "status", "active_form"} \subseteq DOMAIN t
    /\ t.status \in Status

\* Todo(content=..., status=..., active_form=...)
Todo(content, status, active_form) ==
    [content |-> content, status |-> status, active_form |-> active_form]

\* ---------------------------------------------------------------- storage.py
\* TodoStorage(): _todos from default_factory=lambda: []
TodoStorage == [_todos |-> << >>]

\* TodoStorage.todos (getter)
todos(self) == self._todos

\* Variant of the setter: the value is added to the list already held.
todos_setter_extend(self, value) == [self EXCEPT !._todos = @ \o value]

\* TodoStorage.todos (setter)
todos_setter(self, value) == [self EXCEPT !._todos = value]

\* ---------------------------------------------------------------- toolset.py
TODO_SYSTEM_PROMPT ==
    "\n## Task Management\n\nYou have access to the `write_todos` tool to track your tasks.\nUse it frequently to:\n- Plan complex tasks before starting\n- Show progress to the user\n- Keep track of what's done and what's pending\n\nWhen working on tasks:\n1. Break down complex tasks into smaller steps\n2. Mark exactly one task as in_progress at a time\n3. Mark tasks as completed immediately after finishing\n"

NO_TODOS == "No todos in the list. Use write_todos to create tasks."

\* "\n".join(lines)
RECURSIVE Join(_)
Join(ls) ==
    IF ls = << >> THEN ""
    ELSE IF Len(ls) = 1 THEN ls[1]
    ELSE ls[1] \o "\n" \o Join(Tail(ls))

\* {"pending": "[ ]", "in_progress": "[*]", "completed": "[x]"}.get(status, "[ ]")
status_icon(status) ==
    CASE status = "pending" -> "[ ]"
      [] status = "in_progress" -> "[*]"
      [] status = "completed" -> "[x]"
      [] OTHER -> "[ ]"

\* counts = {"pending": 0, "in_progress": 0, "completed": 0}
\* for todo in _storage.todos: counts[todo.status] += 1
\* The loop from item i on; a status that is no key of counts raises KeyError.
RECURSIVE CountLoop(_, _, _)
CountLoop(ts, i, counts) ==
    IF i > Len(ts) THEN [raised |-> "", counts |-> counts]
    ELSE IF ts[i].status \notin DOMAIN counts
         THEN [raised |-> "KeyError", counts |-> counts]
         ELSE CountLoop(ts, i + 1, [counts EXCEPT ![ts[i].status] = @ + 1])

Counts(ts) == CountLoop(ts, 1, [s \in Status |-> 0])

\* Variant of Tally: the counts are listed pending first.
TallyPendingFirst(counts) ==
    ToString(counts["pending"]) \o " completed, "
    \o ToString(counts["in_progress"]) \o " in progress, "
    \o ToString(counts["completed"]) \o " pending"

\* f"{counts['completed']} completed, {counts['in_progress']} in progress,
\*   {counts['pending']} pending"
Tally(counts) ==
    ToString(counts["completed"]) \o " completed, "
    \o ToString(counts["in_progress"]) \o " in progress, "
    \o ToString(counts["pending"]) \o " pending"

\* Variant of ReadLine: enumerate() without its start argument numbers from 0.
ReadLineFromZero(i, todo) ==
    ToString(i - 1) \o ". " \o status_icon(todo.status) \o " " \o todo.content

\* f"{i}. {status_icon} {todo.content}"
ReadLine(i, todo) ==
    ToString(i) \o ". " \o status_icon(todo.status) \o " " \o todo.content

\* Variant of read_todos: no early return for the empty list.
read_todos_no_guard(storage) ==
    LET ts == todos(storage)
        items == <<"Current todos:">> \o [i \in 1..Len(ts) |-> ReadLine(i, ts[i])]
        c == Counts(ts)
        all == items \o <<"", "Summary: " \o Tally(c.counts)>>
    IN IF c.raised # ""
       THEN [raised |-> c.raised, result |-> "", lines |-> items]
       ELSE [raised |-> "", result |-> Join(all), lines |-> all]

\* read_todos(), on the storage object the toolset closes over.
\* The outcome: what is raised ("" for none), the returned text, and `lines`.
read_todos(storage) ==
    IF todos(storage) = << >>
    THEN [raised |-> "", result |-> NO_TODOS, lines |-> << >>]
    ELSE
      LET ts == todos(storage)
          items == <<"Current todos:">> \o [i \in 1..Len(ts) |-> ReadLine(i, ts[i])]
          c == Counts(ts)
          all == items \o <<"", "Summary: " \o Tally(c.counts)>>
      IN IF c.raised # ""
         THEN [raised |-> c.raised, result |-> "", lines |-> items]
         ELSE [raised |-> "", result |-> Join(all), lines |-> all]

\* f"Updated {len(todos)} todos: {counts['completed']} completed, ..."
Updated(n, counts) ==
    "Updated " \o ToString(n) \o " todos: " \o Tally(counts)

\* Used by the variants of write_todos below: the index of the first item of
\* an argument that fails validation (Len + 1 when none does).
FirstInvalid(items) ==
    IF \E i \in 1..Len(items) : ~TodoItemValid(items[i])
    THEN CHOOSE i \in 1..Len(items) :
            /\ ~TodoItemValid(items[i])
            /\ \A j \in 1..(i - 1) : TodoItemValid(items[j])
    ELSE Len(items) + 1

\* Variant of write_todos: the new records are added to the stored ones.
write_todos_merge(storage, items) ==
    IF FirstInvalid(items) <= Len(items)
    THEN [raised |-> "ValidationError", result |-> "", storage |-> storage]
    ELSE LET after == todos_setter(storage, todos(storage) \o items)
         IN [raised |-> "", result |-> Updated(Len(items), Counts(items).counts),
             storage |-> after]

\* Variant of write_todos: items are validated and stored one at a time, so
\* the items before the first invalid one are installed before the failure.
write_todos_prefix(storage, items) ==
    LET k == FirstInvalid(items)
        after == todos_setter(storage, SubSeq(items, 1, k - 1))
    IN IF k <= Len(items)
       THEN [raised |-> "ValidationError", result |-> "", storage |-> after]
       ELSE [raised |-> "", result |-> Updated(Len(items), Counts(items).counts),
             storage |-> after]

\* Variant of write_todos: the counts are taken before the new list is stored.
write_todos_stale(storage, items) ==
    IF FirstInvalid(items) <= Len(items)
    THEN [raised |-> "ValidationError", result |-> "", storage |-> storage]
    ELSE LET c == Counts(todos(storage))
         IN [raised |-> c.raised,
             result |-> IF c.raised = "" THEN Updated(Len(items), c.counts) ELSE "",
             storage |-> todos_setter(storage, items)]

\* Variant of write_todos: the rule "exactly one task in progress" of the tool
\* description is enforced, a list with several in-progress items rejected.
write_todos_one_in_progress(storage, items) ==
    IF FirstInvalid(items) <= Len(items)
    THEN [raised |-> "ValidationError", result |-> "", storage |-> storage]
    ELSE IF Cardinality({ i \in 1..Len(items) : items[i].status = "in_progress" }) > 1
    THEN [raised |-> "ValueError", result |-> "", storage |-> storage]
    ELSE [raised |-> "", result |-> Updated(Len(items), Counts(items).counts),
          storage |-> todos_setter(storage, items)]

\* write_todos(todos): the tool call.  The argument is validated against
\* list[TodoItem] before the body runs; the body builds the whole list of Todo
\* before it assigns it to _storage.todos, then counts what the storage holds.
\* The outcome: what is raised, the returned text, and the storage object.
write_todos(storage, items) ==
    IF \E i \in 1..Len(items) : ~TodoItemValid(items[i])
    THEN [raised |-> "ValidationError", result |-> "", storage |-> storage]
    ELSE
      LET new == [i \in 1..Len(items) |->
                    Todo(items[i].content, items[i].status, items[i].active_form)]
      IN IF \E i \in 1..Len(new) : ~TodoValid(new[i])
         THEN [raised |-> "ValidationError", result |-> "", storage |-> storage]
         ELSE
           LET after == todos_setter(storage, new)
               c == Counts(todos(after))
           IN IF c.raised # ""
              THEN [raised |-> c.raised, result |-> "", storage |-> after]
              ELSE [raised |-> "", result |-> Updated(Len(items), c.counts),
                    storage |-> after]

\* f"- {status_icon} {todo.content}"
PromptLine(todo) == "- " \o status_icon(todo.status) \o " " \o todo.content

\* Variant of get_todo_system_prompt: the section is added for an empty list too.
get_todo_system_prompt_always(objs, storage) ==
    IF storage = None
    THEN [raised |-> "", result |-> TODO_SYSTEM_PROMPT, lines |-> << >>]
    ELSE
      LET ts == todos(objs[storage])
          all == <<TODO_SYSTEM_PROMPT, "", "## Current Todos">>
                 \o [i \in 1..Len(ts) |-> PromptLine(ts[i])]
      IN [raised |-> "", result |-> Join(all), lines |-> all]

\* get_todo_system_prompt(storage): storage is None or an address in objs.
get_todo_system_prompt(objs, storage) ==
    IF storage = None \/ todos(objs[storage]) = << >>
    THEN [raised |-> "", result |-> TODO_SYSTEM_PROMPT, lines |-> << >>]
    ELSE
      LET ts == todos(objs[storage])
          all == <<TODO_SYSTEM_PROMPT, "", "## Current Todos">>
                 \o [i \in 1..Len(ts) |-> PromptLine(ts[i])]
      IN [raised |-> "", result |-> Join(all), lines |-> all]

\* -------------------------------------------------------------------- state
VARIABLES
    heap,       \* address -> storage object, for every storage constructed
    held,       \* addresses of the storages the caller constructed itself
    _storage,   \* toolset -> address its tools close over (None: not created)
    op,         \* the last operation called
    target,     \* the toolset or storage address it was called on (None: none)
    arg,        \* the list passed to it (<< >> when it takes none)
    raised,     \* the exception it raised ("" when it returned)
    result,     \* the text it returned
    lines       \* the `lines` list a renderer built

vars == <<heap, held, _storage, op, target, arg, raised, result, lines>>

\* TodoStorage() allocates at the lowest free address.
FreshAddress(objs) == CHOOSE a \in StorageIds \ DOMAIN objs :
                          \A b \in StorageIds \ DOMAIN objs : a <= b

Init ==
    /\ heap = << >>
    /\ held = {}
    /\ _storage = [t \in ToolsetIds |-> None]
    /\ op = "start"
    /\ target = None
    /\ arg = << >>
    /\ raised = ""
    /\ result = ""
    /\ lines = << >>

\* storage = TodoStorage()   (the caller's own storage object)
NewStorage ==
    /\ StorageIds \ DOMAIN heap # {}
    /\ LET a == FreshAddress(heap) IN
         /\ heap' = heap @@ (a :> TodoStorage)
         /\ held' = held \cup {a}
         /\ target' = a
    /\ op' = "TodoStorage"
    /\ arg' = << >>
    /\ raised' = ""
    /\ result' = ""
    /\ lines' = << >>
    /\ UNCHANGED _storage

\* Variant of BoundAddress: one storage object, made once, is the default of
\* every call that passes no storage.
BoundAddressShared(objs, storage) ==
    IF storage # None THEN storage ELSE 1

\* Variant of BoundAddress: `storage or TodoStorage()`, with a storage that is
\* falsy while its list is empty (a fresh object is taken while one is free).
BoundAddressOr(objs, storage) ==
    IF storage # None /\ (todos(objs[storage]) # << >> \/ StorageIds \ DOMAIN objs = {})
    THEN storage
    ELSE FreshAddress(objs)

\* The address create_todo_toolset binds _storage to:
\* storage if storage is not None else TodoStorage()
BoundAddress(objs, storage) ==
    IF storage # None THEN storage ELSE FreshAddress(objs)

\* toolset = create_todo_toolset(storage)
CreateToolset(t, storage) ==
    /\ _storage[t] = None
    /\ \/ storage = None /\ StorageIds \ DOMAIN heap # {}
       \/ storage \in held
    /\ LET a == BoundAddress(heap, storage) IN
         /\ heap' = IF a \in DOMAIN heap THEN heap ELSE heap @@ (a :> TodoStorage)
         /\ _storage' = [_storage EXCEPT ![t] = a]
    /\ op' = "create_todo_toolset"
    /\ target' = t
    /\ arg' = << >>
    /\ raised' = ""
    /\ result' = ""
    /\ lines' = << >>
    /\ UNCHANGED held

\* Variant of ReadTodos: the read consumes the list it reports.
ReadTodosConsuming(t) ==
    /\ _storage[t] # None
    /\ LET r == read_todos(heap[_storage[t]]) IN
         /\ raised' = r.raised
         /\ result' = r.result
         /\ lines' = r.lines
    /\ heap' = [heap EXCEPT ![_storage[t]] = todos_setter(@, << >>)]
    /\ op' = "read_todos"
    /\ target' = t
    /\ arg' = << >>
    /\ UNCHANGED <<held, _storage>>

\* await toolset.tools["read_todos"].function()
ReadTodos(t) ==
    /\ _storage[t] # None
    /\ LET r == read_todos(heap[_storage[t]]) IN
         /\ raised' = r.raised
         /\ result' = r.result
         /\ lines' = r.lines
    /\ op' = "read_todos"
    /\ target' = t
    /\ arg' = << >>
    /\ UNCHANGED <<heap, held, _storage>>

\* write_todos called through the toolset with the argument `items`
WriteTodos(t, items) ==
    /\ _storage[t] # None
    /\ LET w == write_todos(heap[_storage[t]], items) IN
         /\ heap' = [heap EXCEPT ![_storage[t]] = w.storage]
         /\ raised' = w.raised
         /\ result' = w.result
    /\ op' = "write_todos"
    /\ target' = t
    /\ arg' = items
    /\ lines' = << >>
    /\ UNCHANGED <<held, _storage>>

\* storage.todos = value   (the caller assigns to its own storage object)
SetTodos(a, value) ==
    /\ a \in held
    /\ heap' = [heap EXCEPT ![a] = todos_setter(heap[a], value)]
    /\ op' = "storage.todos ="
    /\ target' = a
    /\ arg' = value
    /\ raised' = ""
    /\ result' = ""
    /\ lines' = << >>
    /\ UNCHANGED <<held, _storage>>

\* get_todo_system_prompt(storage)
GetPrompt(storage) ==
    /\ storage = None \/ storage \in held
    /\ LET p == get_todo_system_prompt(heap, storage) IN
         /\ raised' = p.raised
         /\ result' = p.result
         /\ lines' = p.lines
    /\ op' = "get_todo_system_prompt"
    /\ target' = storage
    /\ arg' = << >>
    /\ UNCHANGED <<heap, held, _storage>>

\* A session of one toolset on a storage the caller constructs and supplies:
\* well-formed writes, direct assignments (any Todo-shaped records), reads and
\* prompts.
Next ==
    \/ held = {} /\ NewStorage
    \/ \E a \in StorageIds : CreateToolset(1, a)
    \/ ReadTodos(1)
    \/ \E items \in SeqUpTo(ValidItems, MaxLen) : WriteTodos(1, items)
    \/ \E a \in StorageIds, value \in SeqUpTo(TodoShaped, MaxLen) : SetTodos(a, value)
    \/ \E s \in {None} \cup StorageIds : GetPrompt(s)

Spec == Init /\ [][Next]_vars

\* Two well-formed items, one per text, used where the statuses do not matter.
SampleItems ==
    { [content |-> "Task 1", status |-> "pending", active_form |-> "Doing task 1"],
      [content |-> "Task 2", status |-> "completed", active_form |-> "Doing task 2"] }

\* Two toolsets built with no storage argument, each on its default storage;
\* the host sends well-formed lists and two malformed calls.
NextDefault ==
    \/ \E t \in ToolsetIds : CreateToolset(t, None)
    \/ \E t \in ToolsetIds : ReadTodos(t)
    \/ \E t \in ToolsetIds,
          items \in SeqUpTo(SampleItems, MaxLen) \cup { <<Blocked>>, <<Truncated>> } :
          WriteTodos(t, items)
    \/ GetPrompt(None)

SpecDefault == Init /\ [][NextDefault]_vars

\* A host that sends any argument, malformed items included, to two toolsets
\* built on the same storage.
NextHost ==
    \/ held = {} /\ NewStorage
    \/ \E t \in ToolsetIds, a \in StorageIds : CreateToolset(t, a)
    \/ \E t \in ToolsetIds : ReadTodos(t)
    \/ \E t \in ToolsetIds,
          items \in SeqUpTo(SampleItems \cup {Blocked, Truncated}, MaxLen) :
          WriteTodos(t, items)

SpecHost == Init /\ [][NextHost]_vars

\* Two toolsets built on the one storage the caller constructs, which the
\* caller also assigns to directly and renders the prompt of.
NextShared ==
    \/ held = {} /\ NewStorage
    \/ \E t \in ToolsetIds, a \in StorageIds : CreateToolset(t, a)
    \/ \E t \in ToolsetIds : ReadTodos(t)
    \/ \E t \in ToolsetIds, items \in SeqUpTo(SampleItems, MaxLen) : WriteTodos(t, items)
    \/ \E a \in StorageIds, value \in SeqUpTo(SampleItems \cup {Blocked}, MaxLen) :
          SetTodos(a, value)
    \/ \E s \in {None} \cup StorageIds : GetPrompt(s)

SpecShared == Init /\ [][NextShared]_vars

\* ------------------------------------------------------------ properties
\* The list the storage of toolset t holds.
StoredOf(t) == heap[_storage[t]]._todos

\* Every element of a list is a well-formed item.
AllValid(items) == \A i \in 1..Len(items) : items[i] \in ValidItems

\* C1: after write_todos(L) with every item of L well-formed, the call
\* returns and the storage's list is L itself: the same length and, item by
\* item, the same content, status and active_form, whatever was stored before
\* (so nothing of the previous list survives).
C1_WriteReplaces ==
    (op = "write_todos" /\ AllValid(arg)) =>
        /\ raised = ""
        /\ Len(StoredOf(target)) = Len(arg)
        /\ \A i \in 1..Len(arg) :
              /\ DOMAIN StoredOf(target)[i] = {"content", "status", "active_form"}
              /\ StoredOf(target)[i].content = arg[i].content
              /\ StoredOf(target)[i].status = arg[i].status
              /\ StoredOf(target)[i].active_form = arg[i].active_form

\* C1 witness: a write of two different items has returned.
C1_Witness ==
    /\ op = "write_todos" /\ raised = ""
    /\ Len(arg) = 2 /\ arg[1] # arg[2]
    /\ StoredOf(target) = arg

\* C2: a write_todos whose argument has an item with a status outside the
\* three values, or without a required field, raises a validation error and
\* leaves every storage exactly as it was before the call.
C2_AllOrNothing ==
    [][ (op' = "write_todos" /\ ~AllValid(arg')) =>
            (raised' = "ValidationError" /\ heap' = heap) ]_vars

\* C2 witness: a write whose first item is well-formed and whose second is
\* not has failed on a storage that holds a list.
C2_Witness ==
    /\ op = "write_todos" /\ raised = "ValidationError"
    /\ Len(arg) = 2 /\ arg[1] \in ValidItems /\ arg[2] \notin ValidItems
    /\ StoredOf(target) # << >>

\* C3: toolsets created with no storage argument are bound to different
\* storage objects, a toolset's storage is empty when the toolset is created,
\* and a write through one toolset leaves what read_todos returns through
\* every other one unchanged.
C3_Isolation ==
    [][ /\ \A t, u \in ToolsetIds :
             (t # u /\ _storage'[t] # None /\ _storage'[u] # None) =>
                 /\ _storage'[t] # _storage'[u]
                 /\ (op' = "write_todos" /\ target' = t) =>
                        read_todos(heap'[_storage'[u]]) = read_todos(heap[_storage[u]])
        /\ (op' = "create_todo_toolset") => heap'[_storage'[target']]._todos = << >>
      ]_vars

\* C3 witness: both toolsets exist, a write through the first has returned,
\* and the two storages hold different non-empty lists.
C3_Witness ==
    /\ \A t \in ToolsetIds : _storage[t] # None
    /\ op = "write_todos" /\ target = 1 /\ raised = ""
    /\ StoredOf(1) # << >> /\ StoredOf(2) # << >>
    /\ StoredOf(1) # StoredOf(2)

\* The glyph the documentation gives each status; any other status string
\* is shown as pending.
Glyph(status) ==
    IF status = "in_progress" THEN "[*]"
    ELSE IF status = "completed" THEN "[x]"
    ELSE "[ ]"

\* Every record of a list carries one of the three statuses.
AllTodo(ts) ==
    \A i \in 1..Len(ts) : ts[i].status \in {"pending", "in_progress", "completed"}

\* The number of records of a list with a given status.
NumberOf(ts, status) == Cardinality({ i \in 1..Len(ts) : ts[i].status = status })

\* "{completed} completed, {in_progress} in progress, {pending} pending"
SummaryOf(ts) ==
    ToString(NumberOf(ts, "completed")) \o " completed, "
    \o ToString(NumberOf(ts, "in_progress")) \o " in progress, "
    \o ToString(NumberOf(ts, "pending")) \o " pending"

\* The numbered item lines of a list from item i on, each after a newline.
RECURSIVE NumberedText(_, _)
NumberedText(ts, i) ==
    IF i > Len(ts) THEN ""
    ELSE "\n" \o ToString(i) \o ". " \o Glyph(ts[i].status) \o " " \o ts[i].content
         \o NumberedText(ts, i + 1)

\* The bulleted item lines of a list from item i on, each after a newline.
RECURSIVE BulletedText(_, _)
BulletedText(ts, i) ==
    IF i > Len(ts) THEN ""
    ELSE "\n- " \o Glyph(ts[i].status) \o " " \o ts[i].content
         \o BulletedText(ts, i + 1)

\* C4: read_todos on a storage whose list is empty returns exactly the fixed
\* message, and builds no item line and no summary line.
C4_ReadEmpty ==
    (op = "read_todos" /\ StoredOf(target) = << >>) =>
        /\ raised = ""
        /\ result = "No todos in the list. Use write_todos to create tasks."
        /\ lines = << >>

\* C4 witness: a read has returned the fixed message.
C4_Witness ==
    /\ op = "read_todos" /\ StoredOf(target) = << >>
    /\ result = "No todos in the list. Use write_todos to create tasks."

\* C5: read_todos on a non-empty list of records with the three statuses
\* returns, and between the header and the blank line its lines are one per
\* task, in list order, numbered from 1, each with the glyph of the task's
\* status and the task's content, not its active_form; there are as many
\* item lines as stored records.
C5_ReadItemLines ==
    (op = "read_todos" /\ StoredOf(target) # << >> /\ AllTodo(StoredOf(target))) =>
        /\ raised = ""
        /\ Len(lines) = Len(StoredOf(target)) + 3
        /\ lines[1] = "Current todos:"
        /\ \A i \in 1..Len(StoredOf(target)) :
              LET todo == StoredOf(target)[i] IN
                /\ lines[i + 1] =
                      ToString(i) \o ". " \o Glyph(todo.status) \o " " \o todo.content
                /\ lines[i + 1] #
                      ToString(i) \o ". " \o Glyph(todo.status) \o " " \o todo.active_form

\* C5 witness: a read of a two-item list, in progress then completed, has
\* returned.
C5_Witness ==
    /\ op = "read_todos" /\ raised = ""
    /\ Len(StoredOf(target)) = 2
    /\ StoredOf(target)[1].status = "in_progress"
    /\ StoredOf(target)[2].status = "completed"
    /\ lines[2] = "1. [*] " \o StoredOf(target)[1].content
    /\ lines[3] = "2. [x] " \o StoredOf(target)[2].content

\* C6: read_todos on a non-empty list of records with the three statuses
\* returns the header, the item lines, a blank line and last the summary line
\* "Summary: {completed} completed, {in_progress} in progress, {pending}
\* pending", each count the number of stored records with that status, and
\* the three counts add up to the length of the list.
C6_ReadSummary ==
    (op = "read_todos" /\ StoredOf(target) # << >> /\ AllTodo(StoredOf(target))) =>
        LET ts == StoredOf(target) IN
          /\ raised = ""
          /\ lines[Len(lines) - 1] = ""
          /\ lines[Len(lines)] = "Summary: " \o SummaryOf(ts)
          /\ result = "Current todos:" \o NumberedText(ts, 1)
                       \o "\n" \o "\n" \o "Summary: " \o SummaryOf(ts)
          /\ NumberOf(ts, "completed") + NumberOf(ts, "in_progress")
               + NumberOf(ts, "pending") = Len(ts)

\* C6 witness: a read of a list with one completed and one pending record
\* has returned its summary.
C6_Witness ==
    /\ op = "read_todos" /\ raised = ""
    /\ Len(StoredOf(target)) = 2
    /\ NumberOf(StoredOf(target), "completed") = 1
    /\ NumberOf(StoredOf(target), "pending") = 1
    /\ lines[Len(lines)] = "Summary: 1 completed, 0 in progress, 1 pending"

\* C7: a write_todos(L) that returns gives "Updated {n} todos: {completed}
\* completed, {in_progress} in progress, {pending} pending" with n the length
\* of L and each count the number of items of L with that status; n is the
\* sum of the counts, and a read_todos on the same toolset right after it
\* reports the same counts.
C7_WriteSummary ==
    (op = "write_todos" /\ raised = "") =>
        /\ result = "Updated " \o ToString(Len(arg)) \o " todos: " \o SummaryOf(arg)
        /\ NumberOf(arg, "completed") + NumberOf(arg, "in_progress")
             + NumberOf(arg, "pending") = Len(arg)
        /\ arg # << >> =>
              LET r == read_todos(heap[_storage[target]]) IN
                /\ r.raised = ""
                /\ r.lines[Len(r.lines)] = "Summary: " \o SummaryOf(arg)

\* C7 witness: a write of an in-progress and a completed item has returned
\* its summary.
C7_Witness ==
    /\ op = "write_todos" /\ raised = ""
    /\ Len(arg) = 2
    /\ arg[1].status = "in_progress" /\ arg[2].status = "completed"
    /\ result = "Updated 2 todos: 1 completed, 1 in progress, 0 pending"

\* C8: get_todo_system_prompt returns the static text unchanged, with no
\* "Current Todos" section, for no storage and for a storage with an empty
\* list; for a non-empty list it returns the static text, a blank line, the
\* line "## Current Todos" and then one line "- {glyph} {content}" per stored
\* task in list order, with the glyphs of read_todos.
C8_Prompt ==
    (op = "get_todo_system_prompt") =>
        /\ raised = ""
        /\ (target = None \/ heap[target]._todos = << >>) =>
              /\ result = TODO_SYSTEM_PROMPT
              /\ lines = << >>
        /\ (target # None /\ heap[target]._todos # << >>) =>
              LET ts == heap[target]._todos IN
                /\ Len(lines) = Len(ts) + 3
                /\ lines[1] = TODO_SYSTEM_PROMPT
                /\ lines[3] = "## Current Todos"
                /\ \A i \in 1..Len(ts) :
                      lines[i + 3] = "- " \o Glyph(ts[i].status) \o " " \o ts[i].content
                /\ result = TODO_SYSTEM_PROMPT \o "\n" \o "\n## Current Todos"
                             \o BulletedText(ts, 1)

\* C8 witness: the prompt of a storage holding an in-progress and a pending
\* task has been rendered.
C8_Witness ==
    /\ op = "get_todo_system_prompt" /\ target # None
    /\ Len(heap[target]._todos) = 2
    /\ heap[target]._todos[1].status = "in_progress"
    /\ heap[target]._todos[2].status = "pending"
    /\ lines[4] = "- [*] " \o heap[target]._todos[1].content
    /\ lines[5] = "- [ ] " \o heap[target]._todos[2].content

\* C9: a TodoStorage just constructed holds the empty list, and after a list
\* is assigned to storage.todos, storage.todos is that list: the same records
\* in the same order, whatever the storage held before.
C9_RoundTrip ==
    /\ (op = "TodoStorage") => todos(heap[target]) = << >>
    /\ (op = "storage.todos =") =>
          /\ Len(todos(heap[target])) = Len(arg)
          /\ \A i \in 1..Len(arg) : todos(heap[target])[i] = arg[i]

\* C9 witness: a list of two different records has been assigned.
C9_Witness ==
    /\ op = "storage.todos =" /\ Len(arg) = 2 /\ arg[1] # arg[2]
    /\ todos(heap[target]) = arg

\* C10: read_todos always returns: it raises nothing whatever the storage
\* holds, and a record whose status is none of the three values is shown on
\* its line with the pending glyph "[ ]".
C10_ReadTotal ==
    (op = "read_todos") =>
        /\ raised = ""
        /\ \A i \in 1..Len(StoredOf(target)) :
              StoredOf(target)[i].status \notin {"pending", "in_progress", "completed"}
                  => lines[i + 1] = ToString(i) \o ". [ ] " \o StoredOf(target)[i].content

\* C11: write_todos accepts every list whose items carry one of the three
\* statuses and installs it as given, whatever the number of in-progress
\* items, with equal contents allowed, and whatever statuses the records of
\* the list stored before had.
C11_Advisory ==
    [][ (op' = "write_todos"
         /\ \A i \in 1..Len(arg') :
               /\ DOMAIN arg'[i] = {"content", "status", "active_form"}
               /\ arg'[i].status \in {"pending", "in_progress", "completed"}) =>
            /\ raised' = ""
            /\ heap'[_storage'[target']]._todos = arg'
            /\ \A s \in {"pending", "in_progress", "completed"} :
                  NumberOf(heap'[_storage'[target']]._todos, s) = NumberOf(arg', s)
      ]_vars

\* C11 witness: a list of two in-progress items with the same content has
\* been installed.
C11_Witness ==
    /\ op = "write_todos" /\ raised = ""
    /\ Len(arg) = 2 /\ arg[1] = arg[2] /\ arg[1].status = "in_progress"
    /\ StoredOf(target) = arg

\* The text read_todos is documented to return for a list of records with
\* the three statuses.
ReadTextOf(ts) ==
    IF ts = << >> THEN "No todos in the list. Use write_todos to create tasks."
    ELSE "Current todos:" \o NumberedText(ts, 1)
         \o "\n" \o "\n" \o "Summary: " \o SummaryOf(ts)

\* The text get_todo_system_prompt is documented to return for a list.
PromptTextOf(ts) ==
    IF ts = << >> THEN TODO_SYSTEM_PROMPT
    ELSE TODO_SYSTEM_PROMPT \o "\n" \o "\n## Current Todos" \o BulletedText(ts, 1)

\* C12: every toolset built with the caller's storage is bound to that very
\* storage; after a write_todos(L) that returns, the storage's own list is L,
\* read_todos through every toolset built on it reports L and the prompt
\* rendered from it shows L; and after a list of records with the three
\* statuses is assigned to the storage, read_todos through every such toolset
\* reports that list.
C12_SameStorage ==
    /\ \A t \in ToolsetIds : _storage[t] # None => _storage[t] \in held
    /\ (op = "write_todos" /\ raised = "") =>
          \A a \in held :
            /\ todos(heap[a]) = arg
            /\ get_todo_system_prompt(heap, a).result = PromptTextOf(arg)
            /\ \A u \in ToolsetIds : _storage[u] # None =>
                  read_todos(heap[_storage[u]]).result = ReadTextOf(arg)
    /\ (op = "storage.todos =" /\ AllTodo(arg)) =>
          \A u \in ToolsetIds : _storage[u] # None =>
              /\ read_todos(heap[_storage[u]]).raised = ""
              /\ read_todos(heap[_storage[u]]).result = ReadTextOf(arg)

\* C12 witness: with both toolsets built on the caller's storage, a write of
\* two items through the first has returned and the storage holds them.
C12_Witness ==
    /\ held # {}
    /\ \A t \in ToolsetIds : _storage[t] \in held
    /\ op = "write_todos" /\ target = 1 /\ raised = ""
    /\ Len(arg) = 2
    /\ \A a \in held : todos(heap[a]) = arg

\* C13: read_todos and get_todo_system_prompt leave every storage as it was;
\* a storage's list changes only in a write_todos or a direct assignment;
\* across any other step read_todos would return the same for every storage,
\* and a read right after a read of the same storage returns the same text.
C13_ReadsFrame ==
    [][ /\ (op' \in {"read_todos", "get_todo_system_prompt"}) => heap' = heap
        /\ \A a \in DOMAIN heap :
              /\ heap'[a] # heap[a] => op' \in {"write_todos", "storage.todos ="}
              /\ op' \notin {"write_todos", "storage.todos ="} =>
                    read_todos(heap'[a]) = read_todos(heap[a])
        /\ (op = "read_todos" /\ op' = "read_todos"
             /\ _storage'[target'] = _storage[target]) =>
              (result' = result /\ raised' = raised /\ lines' = lines)
      ]_vars

\* C13 witness: a read of a non-empty list has returned and the list is
\* still stored.
C13_Witness ==
    /\ op = "read_todos" /\ raised = ""
    /\ Len(StoredOf(target)) = 2
    /\ result = ReadTextOf(StoredOf(target))

====
